---- MODULE Spec2Model ----
(***************************************************************************)
(* AsyncBulkUpdaterFromEntities                                            *)
(* (src/src/utils/update_from_entities/sqla/async_updater.py).             *)
(*                                                                         *)
(* One updater instance (its slots), the callers that bind a session and   *)
(* await update_from_entity / update_from_entities on it, the statement    *)
(* each call builds, and the table the statement is executed against.      *)
(*                                                                         *)
(* Values are strings.  A Python attribute value is a literal or None; a   *)
(* stored SQL value is a literal or NULL; a cell of the VALUES construct   *)
(* is a pair <<kind, payload>>: a bound literal, or NULL cast to a type.   *)
(***************************************************************************)
EXTENDS Integers, Sequences, FiniteSets, TLC

None == "None"
NULL == "NULL"

\* Largest batch passed to update_from_entities.
MaxBatch == 2
\* Calls each of the concurrent callers makes.
MaxCalls == 2

----------------------------------------------------------------------------
(* The mapped table and the entity schema handed to the constructor.       *)

Column(key, type, pk) == [key |-> key, type |-> type, primary_key |-> pk]

\* model_class.__table__.columns of the "order" table, in declaration order.
OrderColumns(declared) ==
    << Column("order_id", "integer", "order_id" \in declared),
       Column("attempt_id", "integer", "attempt_id" \in declared),
       Column("status", "order_status", "status" \in declared),
       Column("total", "numeric", "total" \in declared),
       Column("created", "timestamp", "created" \in declared) >>

\* entity_class.model_fields, in declaration order ("note" is no column,
\* "created" is no entity field).
OrderEntityFields == << "total", "status", "order_id", "attempt_id", "note" >>

NotGiven == [given |-> FALSE, names |-> <<>>]
Given(names) == [given |-> TRUE, names |-> names]

\* Constructor arguments the callers use.
Configs ==
    { [model_class |-> OrderColumns({"order_id", "attempt_id"}),
       primary_fields |-> NotGiven],
      [model_class |-> OrderColumns({"order_id", "attempt_id"}),
       primary_fields |-> Given(<<"order_id">>)],
      [model_class |-> OrderColumns({"order_id"}),
       primary_fields |-> Given(<<"attempt_id", "order_id">>)],
      [model_class |-> OrderColumns({"order_id", "attempt_id"}),
       primary_fields |-> Given(<<"id">>)],
      [model_class |-> OrderColumns({"order_id", "attempt_id"}),
       primary_fields |-> Given(<<>>)] }

Row(o, a, s, t) ==
    [order_id |-> o, attempt_id |-> a, status |-> s, total |-> t, created |-> "t0"]

\* Contents of the table before the first call.
InitialTables ==
    { << Row("1", "1", "new", "0"), Row("1", "2", "new", "0"), Row("2", "1", "new", "0") >>,
      << Row("1", "1", "paid", NULL), Row("2", "2", NULL, "50"), Row("1", "2", "new", "7") >> }

Entity(o, a, s, t) ==
    [order_id |-> o, attempt_id |-> a, status |-> s, total |-> t, note |-> "n"]

\* Entities the callers pass: key values are never None.
EntityPool ==
    { Entity(k[1], k[2], v[1], v[2]) :
        k \in { <<"1", "1">>, <<"1", "2">>, <<"2", "2">> },
        v \in { <<"paid", None>>, <<None, "50">> } }

RECURSIVE SeqsUpTo(_, _)
SeqsUpTo(S, n) ==
    IF n = 0 THEN { <<>> }
    ELSE LET shorter == SeqsUpTo(S, n - 1)
         IN  shorter \cup { Append(q, x) : q \in { r \in shorter : Len(r) = n - 1 }, x \in S }

BatchPool == SeqsUpTo(EntityPool, MaxBatch)

\* update_fields arguments the callers pass.
RequestPool ==
    { NotGiven, Given(<<>>), Given(<<"status">>), Given(<<"status", "total">>),
      Given(<<"total", "order_id", "bogus", "total">>) }

Callers == {1, 2}
Sessions == {"session1", "session2"}
\* Every caller has a session of its own.
SessionOf(c) == IF c = 1 THEN "session1" ELSE "session2"

----------------------------------------------------------------------------
VARIABLES
    model_class,                    \* self._model_class.__table__.columns
    entity_class,                   \* self._entity_class.model_fields
    primary_fields,                 \* self._primary_fields
    constructed,                    \* __init__ has returned
    primary_fields_by_name,         \* self._primary_fields_by_name
    default_update_fields_by_name,  \* self._default_update_fields_by_name
    session,                        \* self._session
    table,                          \* rows of the mapped table
    frame,                          \* per caller: the call in flight
    made,                           \* per caller: calls made so far, by kind
    executed                        \* per session: statements handed to execute

vars == << model_class, entity_class, primary_fields, constructed,
           primary_fields_by_name, default_update_fields_by_name,
           session, table, frame, made, executed >>

----------------------------------------------------------------------------
(* Ordered dicts: a sequence of items [name, field], names unique.         *)

Item(name, field) == [name |-> name, field |-> field]
Keys(d) == [i \in DOMAIN d |-> d[i].name]
KeySet(d) == { d[i].name : i \in DOMAIN d }

\* d[name] = field: a new key goes last, a known key keeps its place.
DictSet(d, name, field) ==
    IF name \in KeySet(d)
    THEN [i \in DOMAIN d |-> IF d[i].name = name THEN Item(name, field) ELSE d[i]]
    ELSE Append(d, Item(name, field))

DictGet(d, name) == (CHOOSE i \in DOMAIN d : d[i].name = name)
Lookup(d, name) == d[DictGet(d, name)].field

\* self._orm_model_fields: the columns keyed by name.
OrmModelFields(mc) == [i \in DOMAIN mc |-> Item(mc[i].key, mc[i])]

SeqToSet(q) == { q[i] : i \in DOMAIN q }

----------------------------------------------------------------------------
(* __init__: the two cached dicts.                                         *)

IsPrimaryKey(field_name, field) ==
    IF ~primary_fields.given
    THEN field.primary_key
    ELSE field_name \in SeqToSet(primary_fields.names)

InitPrimaryFieldsByName ==
    SelectSeq(OrmModelFields(model_class), LAMBDA it : IsPrimaryKey(it.name, it.field))

\* As InitDefaultUpdateFieldsByName, without the test that leaves the key out.
InitDefaultUpdateFieldsByNameWithKey(pk) ==
    LET orm == OrmModelFields(model_class)
        names == SelectSeq(entity_class, LAMBDA n : n \in KeySet(orm))
    IN  [i \in DOMAIN names |-> Item(names[i], Lookup(orm, names[i]))]

InitDefaultUpdateFieldsByName(pk) ==
    LET orm == OrmModelFields(model_class)
        names == SelectSeq(entity_class,
                           LAMBDA n : n \in KeySet(orm) /\ n \notin KeySet(pk))
    IN  [i \in DOMAIN names |-> Item(names[i], Lookup(orm, names[i]))]

----------------------------------------------------------------------------
(* _clear_update_fields                                                    *)

RECURSIVE ClearGiven(_)
ClearGiven(names) ==
    IF names = <<>> THEN <<>>
    ELSE LET d == ClearGiven(SubSeq(names, 1, Len(names) - 1))
             field_name == names[Len(names)]
         IN  IF /\ field_name \notin KeySet(primary_fields_by_name)
                /\ field_name \in KeySet(default_update_fields_by_name)
             THEN DictSet(d, field_name, Lookup(default_update_fields_by_name, field_name))
             ELSE d

RECURSIVE ClearGivenAnyColumn(_)
ClearGivenAnyColumn(names) ==
    IF names = <<>> THEN <<>>
    ELSE LET d == ClearGivenAnyColumn(SubSeq(names, 1, Len(names) - 1))
             field_name == names[Len(names)]
             orm == OrmModelFields(model_class)
         IN  IF field_name \in KeySet(orm) /\ field_name \in SeqToSet(entity_class)
             THEN DictSet(d, field_name, Lookup(orm, field_name))
             ELSE d

\* As ClearUpdateFields, keeping every requested name that is a column and an
\* entity field, key or not.
ClearUpdateFieldsAnyColumn(raw_update_fields) ==
    IF ~raw_update_fields.given
    THEN default_update_fields_by_name
    ELSE ClearGivenAnyColumn(raw_update_fields.names)

ClearUpdateFields(raw_update_fields) ==
    IF ~raw_update_fields.given
    THEN default_update_fields_by_name
    ELSE ClearGiven(raw_update_fields.names)

----------------------------------------------------------------------------
(* _build_virtual_table_with_values_to_update                              *)

GetAttr(entity, field_name) == entity[field_name]

\* One element of row_data: None becomes sa.null().cast(field.type).
ValuesCell(value, field) ==
    IF value = None THEN << "cast", field.type >> ELSE << "lit", value >>

\* chain(self._primary_fields_by_name.items(), update_fields.items())
ChainItems(update_fields) == primary_fields_by_name \o update_fields

\* As RowData, with the update fields' values before the key's.
RowDataUpdateFieldsFirst(entity, update_fields) ==
    LET names == Keys(update_fields \o primary_fields_by_name)
    IN  [i \in DOMAIN names |->
            ValuesCell(GetAttr(entity, names[i]),
                       Lookup(OrmModelFields(model_class), names[i]))]

RowData(entity, update_fields) ==
    LET names == Keys(ChainItems(update_fields))
    IN  [i \in DOMAIN names |->
            ValuesCell(GetAttr(entity, names[i]),
                       Lookup(OrmModelFields(model_class), names[i]))]

BuildVirtualTable(entities, update_fields) ==
    LET items == ChainItems(update_fields)
    IN  [name |-> "new_data",
         columns |-> [i \in DOMAIN items |->
                        [name |-> items[i].name, type |-> items[i].field.type]],
         data |-> [j \in DOMAIN entities |-> RowData(entities[j], update_fields)]]

NoValues == [name |-> "", columns |-> <<>>, data |-> <<>>]

----------------------------------------------------------------------------
(* The lookup expressions and the statements.                              *)

\* As BuildSingleLookupExprForTable, comparing the first key field only.
BuildSingleLookupExprFirstKeyOnly(entity) ==
    [i \in DOMAIN primary_fields_by_name \cap {1} |->
        LET field == primary_fields_by_name[i].field
            value == GetAttr(entity, field.key)
        IN  [column |-> field.key,
             op |-> IF value = None THEN "IS" ELSE "=",
             value |-> value]]

\* and_(field == entity.<key>, ...): a comparison with None renders IS NULL.
BuildSingleLookupExprForTable(entity) ==
    [i \in DOMAIN primary_fields_by_name |->
        LET field == primary_fields_by_name[i].field
            value == GetAttr(entity, field.key)
        IN  [column |-> field.key,
             op |-> IF value = None THEN "IS" ELSE "=",
             value |-> value]]

\* As BuildManyLookupExprForTable, listing the first entity's values only.
BuildManyLookupExprFirstEntityOnly(entities) ==
    [i \in DOMAIN primary_fields_by_name |->
        LET field == primary_fields_by_name[i].field
        IN  [column |-> field.key,
             values |-> << GetAttr(entities[1], field.key) >>]]

\* and_(field.in_([entity.<key> for entity in entities]), ...)
BuildManyLookupExprForTable(entities) ==
    [i \in DOMAIN primary_fields_by_name |->
        LET field == primary_fields_by_name[i].field
        IN  [column |-> field.key,
             values |-> [j \in DOMAIN entities |-> GetAttr(entities[j], field.key)]]]

\* As BuildLookupExprForJoinTableAndValues, joining on the first key field only.
BuildLookupExprForJoinFirstKeyOnly(values) ==
    [i \in DOMAIN primary_fields_by_name \cap {1} |->
        LET table_field == primary_fields_by_name[i].field
        IN  [column |-> table_field.key, value |-> table_field.key]]

\* and_(table_field == values.c.<key>, ...)
BuildLookupExprForJoinTableAndValues(values) ==
    [i \in DOMAIN primary_fields_by_name |->
        LET table_field == primary_fields_by_name[i].field
        IN  [column |-> table_field.key, value |-> table_field.key]]

NoStmt == [kind |-> "none", where_eq |-> <<>>, where_in |-> <<>>,
           where_join |-> <<>>, set |-> <<>>, values |-> NoValues]

\* As BuildUpdateStatement, without the join condition.
BuildUpdateStatementNoJoin(entities, update_fields, new_data_values) ==
    [kind |-> "many",
     where_eq |-> <<>>,
     where_in |-> BuildManyLookupExprForTable(entities),
     where_join |-> <<>>,
     set |-> [i \in DOMAIN update_fields |->
                [column |-> update_fields[i].name, value |-> update_fields[i].name]],
     values |-> new_data_values]

BuildUpdateStatement(entities, update_fields, new_data_values) ==
    [kind |-> "many",
     where_eq |-> <<>>,
     where_in |-> BuildManyLookupExprForTable(entities),
     where_join |-> BuildLookupExprForJoinTableAndValues(new_data_values),
     set |-> [i \in DOMAIN update_fields |->
                [column |-> update_fields[i].name, value |-> update_fields[i].name]],
     values |-> new_data_values]

\* The statement update_from_entity builds.
BuildSingleStatement(entity, update_fields) ==
    [kind |-> "single",
     where_eq |-> BuildSingleLookupExprForTable(entity),
     where_in |-> <<>>,
     where_join |-> <<>>,
     set |-> [i \in DOMAIN update_fields |->
                [column |-> update_fields[i].name,
                 value |-> GetAttr(entity, update_fields[i].name)]],
     values |-> NoValues]

----------------------------------------------------------------------------
(* session.execute(stmt): what the database does with a statement.         *)

\* A bound parameter: None is sent as NULL.
PyToSql(value) == IF value = None THEN NULL ELSE value

\* SQL "=": never true of NULL.
SqlEq(a, b) == a # NULL /\ b # NULL /\ a = b

EvalCell(cell) == IF cell[1] = "lit" THEN cell[2] ELSE NULL

\* A VALUES cell fits its column: a bound literal, or NULL cast to the
\* column's type.  An untyped NULL is taken for text.
CellFits(cell, type) ==
    \/ cell[1] = "lit"
    \/ cell[1] = "cast" /\ cell[2] = type
    \/ cell[1] = "null" /\ type = "text"

ValuesIndex(values, name) ==
    CHOOSE i \in DOMAIN values.columns : values.columns[i].name = name

HasValuesColumn(values, name) ==
    \E i \in DOMAIN values.columns : values.columns[i].name = name

\* The database accepts the statement: a SET clause that is not empty, a
\* VALUES construct whose rows fit its columns, and assignments between
\* columns of one type.
StatementAccepted(stmt, columns) ==
    /\ stmt.set # <<>>
    /\ \A j \in DOMAIN stmt.values.data :
          /\ Len(stmt.values.data[j]) = Len(stmt.values.columns)
          /\ \A i \in DOMAIN stmt.values.columns :
                CellFits(stmt.values.data[j][i], stmt.values.columns[i].type)
    /\ stmt.kind = "many" =>
          /\ \A i \in DOMAIN stmt.set :
                /\ HasValuesColumn(stmt.values, stmt.set[i].value)
                /\ stmt.values.columns[ValuesIndex(stmt.values, stmt.set[i].value)].type
                      = Lookup(OrmModelFields(columns), stmt.set[i].column).type
          /\ \A i \in DOMAIN stmt.where_join :
                HasValuesColumn(stmt.values, stmt.where_join[i].value)

\* WHERE of update_from_entity.
MatchesSingle(row, stmt) ==
    \A i \in DOMAIN stmt.where_eq :
        IF stmt.where_eq[i].op = "IS"
        THEN row[stmt.where_eq[i].column] = NULL
        ELSE SqlEq(row[stmt.where_eq[i].column], PyToSql(stmt.where_eq[i].value))

\* WHERE of update_from_entities: the IN filter, and the join with row j of
\* the VALUES construct.
MatchesFilter(row, stmt) ==
    \A i \in DOMAIN stmt.where_in :
        \E k \in DOMAIN stmt.where_in[i].values :
            SqlEq(row[stmt.where_in[i].column], PyToSql(stmt.where_in[i].values[k]))

MatchesJoin(row, stmt, j) ==
    \A i \in DOMAIN stmt.where_join :
        SqlEq(row[stmt.where_join[i].column],
              EvalCell(stmt.values.data[j][ValuesIndex(stmt.values, stmt.where_join[i].value)]))

JoinRows(row, stmt) ==
    { j \in DOMAIN stmt.values.data : MatchesFilter(row, stmt) /\ MatchesJoin(row, stmt, j) }

SetColumns(stmt) == { stmt.set[i].column : i \in DOMAIN stmt.set }

SetIndex(stmt, column) == CHOOSE i \in DOMAIN stmt.set : stmt.set[i].column = column

\* The row after SET, taking the new values from the parameters (single) or
\* from row j of the VALUES construct (many).
AssignRow(row, stmt, j) ==
    [c \in DOMAIN row |->
        IF c \notin SetColumns(stmt) THEN row[c]
        ELSE IF stmt.kind = "single"
             THEN PyToSql(stmt.set[SetIndex(stmt, c)].value)
             ELSE EvalCell(stmt.values.data[j][
                      ValuesIndex(stmt.values, stmt.set[SetIndex(stmt, c)].value)])]

\* The tables the statement may leave.  A target row that joins several rows
\* of the VALUES construct is updated from one of them, whichever.
ExecuteOutcomes(tbl, stmt, columns) ==
    IF ~StatementAccepted(stmt, columns) THEN { [ok |-> FALSE, table |-> tbl] }
    ELSE IF stmt.kind = "single"
    THEN { [ok |-> TRUE,
            table |-> [k \in DOMAIN tbl |->
                         IF MatchesSingle(tbl[k], stmt) THEN AssignRow(tbl[k], stmt, 0)
                         ELSE tbl[k]]] }
    ELSE LET from == [k \in DOMAIN tbl |->
                        IF JoinRows(tbl[k], stmt) = {} THEN {0} ELSE JoinRows(tbl[k], stmt)]
             pick == { f \in [DOMAIN tbl -> 0 .. Len(stmt.values.data)] :
                         \A k \in DOMAIN tbl : f[k] \in from[k] }
         IN  { [ok |-> TRUE,
                table |-> [k \in DOMAIN tbl |->
                             IF f[k] = 0 THEN tbl[k] ELSE AssignRow(tbl[k], stmt, f[k])]] :
               f \in pick }

----------------------------------------------------------------------------
(* The calls.                                                              *)

NoRet == [kind |-> "pending", value |-> <<>>]

EmptyFrame ==
    [pc |-> "idle", bound |-> "", op |-> "", entities |-> <<>>, requested |-> NotGiven,
     update_fields |-> <<>>, stmt |-> NoStmt, ran_on |-> "", pre |-> <<>>, ret |-> NoRet]

\* update_from_entity up to its await.
UpdateFromEntityBody(entity, update_fields) ==
    LET cleared == ClearUpdateFields(update_fields)
    IN  [returned |-> FALSE, ret |-> NoRet, update_fields |-> cleared,
         stmt |-> BuildSingleStatement(entity, cleared)]

\* As UpdateFromEntitiesBody, without the early return on an empty list.
UpdateFromEntitiesBodyNoEmptyCheck(entities, update_fields) ==
    LET cleared == ClearUpdateFields(update_fields)
        new_data_values == BuildVirtualTable(entities, cleared)
    IN  [returned |-> FALSE, ret |-> NoRet, update_fields |-> cleared,
         stmt |-> BuildUpdateStatement(entities, cleared, new_data_values)]

\* update_from_entities up to its await, or to its early return.
UpdateFromEntitiesBody(entities, update_fields) ==
    IF Len(entities) = 0
    THEN [returned |-> TRUE, ret |-> [kind |-> "none", value |-> <<>>],
          update_fields |-> <<>>, stmt |-> NoStmt]
    ELSE LET cleared == ClearUpdateFields(update_fields)
             new_data_values == BuildVirtualTable(entities, cleared)
         IN  [returned |-> FALSE, ret |-> NoRet, update_fields |-> cleared,
              stmt |-> BuildUpdateStatement(entities, cleared, new_data_values)]

\* Before the constructor runs: its arguments, and the table as it is.
InitWith(configs, tables) ==
    /\ \E cfg \in configs :
          /\ model_class = cfg.model_class
          /\ primary_fields = cfg.primary_fields
    /\ entity_class = OrderEntityFields
    /\ constructed = FALSE
    /\ primary_fields_by_name = <<>>
    /\ default_update_fields_by_name = <<>>
    /\ session = ""
    /\ table \in tables
    /\ frame = [c \in Callers |-> EmptyFrame]
    /\ made = [c \in Callers |-> [one |-> 0, many |-> 0, empty |-> 0]]
    /\ executed = [s \in Sessions |-> 0]

Init == InitWith(Configs, InitialTables)

\* __init__
Construct ==
    /\ ~constructed
    /\ constructed' = TRUE
    /\ primary_fields_by_name' = InitPrimaryFieldsByName
    /\ default_update_fields_by_name' = InitDefaultUpdateFieldsByName(InitPrimaryFieldsByName)
    /\ UNCHANGED << model_class, entity_class, primary_fields, session, table, frame,
                    made, executed >>

CallsMade(c) == made[c].one + made[c].many + made[c].empty

\* __call__(session): the caller binds its session and gets the updater back.
Bind(c, cap) ==
    /\ constructed
    /\ frame[c].pc \in {"idle", "done"}
    /\ CallsMade(c) < cap
    /\ session' = SessionOf(c)
    /\ frame' = [frame EXCEPT ![c] = [EmptyFrame EXCEPT !.pc = "bound", !.bound = SessionOf(c)]]
    /\ UNCHANGED << model_class, entity_class, primary_fields, constructed,
                    primary_fields_by_name, default_update_fields_by_name, table,
                    made, executed >>

\* The coroutine runs to its await of self._session.execute(stmt), or returns.
Start(c, op, entities, update_fields, body) ==
    /\ frame[c].pc = "bound"
    /\ frame' = [frame EXCEPT ![c] =
                    [pc |-> IF body.returned THEN "done" ELSE "awaiting",
                     bound |-> frame[c].bound,
                     op |-> op,
                     entities |-> entities,
                     requested |-> update_fields,
                     update_fields |-> body.update_fields,
                     stmt |-> body.stmt,
                     ran_on |-> IF body.returned THEN "" ELSE session,
                     pre |-> <<>>,
                     ret |-> body.ret]]
    /\ executed' = IF body.returned THEN executed
                   ELSE [executed EXCEPT ![session] = @ + 1]
    /\ UNCHANGED << model_class, entity_class, primary_fields, constructed,
                    primary_fields_by_name, default_update_fields_by_name, session, table >>

UpdateFromEntity(c, entity, update_fields) ==
    /\ LET body == UpdateFromEntityBody(entity, update_fields)
       IN  Start(c, "one", << entity >>, update_fields, body)
    /\ made' = [made EXCEPT ![c].one = @ + 1]

UpdateFromEntities(c, entities, update_fields) ==
    /\ LET body == UpdateFromEntitiesBody(entities, update_fields)
       IN  Start(c, "many", entities, update_fields, body)
    /\ made' = IF Len(entities) = 0 THEN [made EXCEPT ![c].empty = @ + 1]
               ELSE [made EXCEPT ![c].many = @ + 1]

\* The awaited execute completes and the call returns what it was given; a
\* statement the database rejects raises out of the call.
Execute(c) ==
    /\ frame[c].pc = "awaiting"
    /\ \E outcome \in ExecuteOutcomes(table, frame[c].stmt, model_class) :
          /\ table' = outcome.table
          /\ frame' = [frame EXCEPT ![c] =
                          [@ EXCEPT !.pc = "done",
                                    !.pre = table,
                                    !.ret = IF ~outcome.ok
                                            THEN [kind |-> "raised", value |-> <<>>]
                                            ELSE IF frame[c].op = "one"
                                            THEN [kind |-> "entity", value |-> frame[c].entities]
                                            ELSE [kind |-> "list", value |-> frame[c].entities]]]
    /\ UNCHANGED << model_class, entity_class, primary_fields, constructed,
                    primary_fields_by_name, default_update_fields_by_name, session,
                    made, executed >>

\* One call of one caller, whatever it may pass, on whatever the table holds.
Next ==
    \/ Construct
    \/ Bind(1, 1)
    \/ \E entity \in EntityPool, update_fields \in RequestPool :
          UpdateFromEntity(1, entity, update_fields)
    \/ \E entities \in BatchPool, update_fields \in RequestPool :
          UpdateFromEntities(1, entities, update_fields)
    \/ Execute(1)

Spec == Init /\ [][Next]_vars

\* Two callers sharing the instance, each making several calls; a caller
\* binds its session, then its coroutine runs to the await, then the
\* statement completes, in any interleaving with the other caller.
ConcEntity == Entity("1", "1", "paid", None)
ConcBatchPool == SeqsUpTo({ ConcEntity }, MaxBatch)
ConcTable == << Row("1", "1", "new", "0"), Row("1", "2", "new", "0"), Row("2", "1", "new", "0") >>

ConcConfigs == { cfg \in Configs : ~cfg.primary_fields.given \/ cfg.primary_fields.names = <<"id">> }

InitConc == InitWith(ConcConfigs, { ConcTable })

NextConc ==
    \/ Construct
    \/ \E c \in Callers : Bind(c, MaxCalls)
    \/ \E c \in Callers : UpdateFromEntity(c, ConcEntity, NotGiven)
    \/ \E c \in Callers, entities \in ConcBatchPool :
          UpdateFromEntities(c, entities, NotGiven)
    \/ \E c \in Callers : Execute(c)

SpecConc == InitConc /\ [][NextConc]_vars

----------------------------------------------------------------------------
(* Vocabulary of the properties, stated on the constructor's arguments.    *)

RowNames == { model_class[i].key : i \in DOMAIN model_class }

RowColumn(name) == model_class[CHOOSE i \in DOMAIN model_class : model_class[i].key = name]

\* PrimaryKeyFields: the explicit set when given, else the declared key.
PrimaryKeyFields ==
    IF primary_fields.given
    THEN RowNames \cap SeqToSet(primary_fields.names)
    ELSE { n \in RowNames : RowColumn(n).primary_key }

\* UpdatableFields: row fields that are entity fields, minus the key.
UpdatableFields == (RowNames \cap SeqToSet(entity_class)) \ PrimaryKeyFields

\* The update fields a call resolves to.
ResolvedFields(requested) ==
    IF requested.given
    THEN (SeqToSet(requested.names) \cap UpdatableFields) \ PrimaryKeyFields
    ELSE UpdatableFields

\* The row has the entity's primary-key values.
SameKey(row, entity) == \A n \in PrimaryKeyFields : row[n] = PyToSql(entity[n])

SameKeys(e1, e2) == \A n \in PrimaryKeyFields : e1[n] = e2[n]

Started(c) == frame[c].pc \in {"awaiting", "done"} /\ frame[c].stmt.kind # "none"

Succeeded(c, op) ==
    /\ frame[c].pc = "done"
    /\ frame[c].op = op
    /\ frame[c].ret.kind \in {"entity", "list"}

\* C1: a constructed instance has a non-empty PrimaryKeyFields (construction
\* fails otherwise), so no statement has an empty key predicate.
C1_EmptyKeyIsRejected ==
    /\ constructed => primary_fields_by_name # <<>>
    /\ \A c \in Callers :
          Started(c) => frame[c].stmt.where_eq \o frame[c].stmt.where_join # <<>>

\* C2: the statement of every call in flight is executed on the session that
\* this call bound.
C2_RunsOnOwnSession ==
    \A c \in Callers : Started(c) => frame[c].ran_on = frame[c].bound

\* C3 (as claimed): after update_from_entities succeeds, every row with an
\* entity's primary-key values holds that entity's value in every resolved
\* update field, for every batch.
RoundTrip(c) ==
    \A j \in DOMAIN frame[c].entities, k \in DOMAIN table :
        SameKey(table[k], frame[c].entities[j]) =>
            \A f \in ResolvedFields(frame[c].requested) :
                table[k][f] = PyToSql(frame[c].entities[j][f])

C3_RoundTripEveryBatch ==
    \A c \in Callers : Succeeded(c, "many") => RoundTrip(c)

\* Entities of the batch with the same primary-key values have the same
\* values for the resolved update fields.
KeysDecideValues(entities, requested) ==
    \A i, j \in DOMAIN entities :
        SameKeys(entities[i], entities[j]) =>
            \A f \in ResolvedFields(requested) : entities[i][f] = entities[j][f]

\* C3 (amended): the round trip holds for every batch in which entities with
\* equal primary-key values agree on the resolved update fields.
C3_RoundTrip ==
    \A c \in Callers :
        Succeeded(c, "many") /\ KeysDecideValues(frame[c].entities, frame[c].requested)
            => RoundTrip(c)

\* A composite-key batch of two entities with different keys, both in the
\* table, one of them with a None value, has been written.
C3_Witness ==
    /\ Cardinality(PrimaryKeyFields) = 2
    /\ Succeeded(1, "many")
    /\ Len(frame[1].entities) = 2
    /\ ~SameKeys(frame[1].entities[1], frame[1].entities[2])
    /\ \A j \in {1, 2} : \E k \in DOMAIN table :
          /\ SameKey(table[k], frame[1].entities[j])
          /\ table[k] # frame[1].pre[k]
    /\ \E k \in DOMAIN table : table[k].status = NULL /\ frame[1].pre[k].status # NULL

RECURSIVE Sum(_, _)
Sum(f, S) == IF S = {} THEN 0 ELSE LET x == CHOOSE y \in S : TRUE IN f[x] + Sum(f, S \ {x})

StatementsExecuted == Sum(executed, Sessions)
StatementCalls == Sum([c \in Callers |-> made[c].one + made[c].many], Callers)

\* C4: a call with a non-empty batch hands one statement to its session; a
\* call with an empty batch hands over none, builds none and returns None;
\* the statements executed are as many as the update_from_entity calls plus
\* the update_from_entities calls with a non-empty batch.
C4_OneStatementPerCall ==
    /\ StatementsExecuted = StatementCalls
    /\ \A c \in Callers :
          frame[c].pc \in {"awaiting", "done"} /\ frame[c].op = "many" =>
              IF frame[c].entities = <<>>
              THEN /\ frame[c].pc = "done"
                   /\ frame[c].ret.kind = "none"
                   /\ frame[c].stmt = NoStmt
                   /\ frame[c].ran_on = ""
              ELSE /\ frame[c].stmt.kind = "many"
                   /\ frame[c].ran_on \in Sessions
                   /\ frame[c].ret.kind # "none"

\* Calls of every kind have been made, the last one with an empty batch.
C4_Witness ==
    /\ \E c \in Callers : made[c].one > 0
    /\ \E c \in Callers : made[c].many > 0 /\ made[c].empty > 0
    /\ \E c \in Callers :
          frame[c].pc = "done" /\ frame[c].op = "many" /\ frame[c].entities = <<>>
    /\ \E c \in Callers :
          frame[c].pc = "done" /\ frame[c].op = "many" /\ Len(frame[c].entities) = MaxBatch
    /\ StatementsExecuted >= 2

\* C5: _clear_update_fields returns the cached UpdatableFields when nothing
\* is requested, and otherwise exactly the requested names that are
\* updatable and no key, each once, each with the row schema's column.
C5_ClearUpdateFields ==
    \A c \in Callers :
        Started(c) =>
            LET got == frame[c].update_fields
            IN  /\ KeySet(got) = ResolvedFields(frame[c].requested)
                /\ Cardinality(KeySet(got)) = Len(got)
                /\ \A i \in DOMAIN got : got[i].field = RowColumn(got[i].name)
                /\ ~frame[c].requested.given => got = default_update_fields_by_name

\* A request naming a key field, an unknown field and one field twice has
\* been resolved to that one field.
C5_Witness ==
    /\ Started(1)
    /\ frame[1].requested = Given(<<"total", "order_id", "bogus", "total">>)
    /\ "order_id" \in PrimaryKeyFields
    /\ Keys(frame[1].update_fields) = <<"total">>

\* C6: no statement sets a primary-key field, and the cached key fields and
\* the cached update fields are disjoint.
C6_KeyNeverSet ==
    /\ KeySet(primary_fields_by_name) \cap KeySet(default_update_fields_by_name) = {}
    /\ KeySet(default_update_fields_by_name) \cap PrimaryKeyFields = {}
    /\ \A c \in Callers :
          Started(c) => SetColumns(frame[c].stmt) \cap PrimaryKeyFields = {}

\* A statement was built for a request that names a key field, under an
\* explicit key that overrides the declared one.
C6_Witness ==
    /\ Started(1)
    /\ primary_fields.given
    /\ PrimaryKeyFields # { n \in RowNames : RowColumn(n).primary_key }
    /\ SeqToSet(frame[1].requested.names) \cap PrimaryKeyFields # {}
    /\ SetColumns(frame[1].stmt) # {}

\* C7: a completed call changes nothing but the resolved update fields of
\* the rows that have the primary-key values of an entity of the call.
C7_Frame ==
    \A c \in Callers :
        frame[c].pc = "done" /\ frame[c].stmt.kind # "none" =>
            \A k \in DOMAIN table :
                /\ \A col \in DOMAIN table[k] :
                      col \notin ResolvedFields(frame[c].requested)
                          => table[k][col] = frame[c].pre[k][col]
                /\ (\A j \in DOMAIN frame[c].entities :
                        ~SameKey(frame[c].pre[k], frame[c].entities[j]))
                      => table[k] = frame[c].pre[k]

\* A batch updated with a requested subset changed one row's status, left
\* its total alone, and left another row alone.
C7_Witness ==
    /\ Succeeded(1, "many")
    /\ frame[1].requested = Given(<<"status">>)
    /\ \E k \in DOMAIN table :
          /\ table[k].status # frame[1].pre[k].status
          /\ table[k].total # PyToSql(frame[1].entities[1].total)
    /\ \E k \in DOMAIN table :
          /\ table[k] = frame[1].pre[k]
          /\ \A j \in DOMAIN frame[1].entities : ~SameKey(table[k], frame[1].entities[j])
          /\ \E j \in DOMAIN frame[1].entities :
                table[k].order_id = frame[1].entities[j].order_id

\* What the two paths leave of a table: the one table update_from_entity
\* leaves, and the tables update_from_entities may leave.
AfterOne(tbl, entity, requested) ==
    LET out == ExecuteOutcomes(tbl, UpdateFromEntityBody(entity, requested).stmt, model_class)
    IN  (CHOOSE o \in out : TRUE).table

AfterMany(tbl, entities, requested) ==
    { o.table :
        o \in ExecuteOutcomes(tbl, UpdateFromEntitiesBody(entities, requested).stmt,
                              model_class) }

RECURSIVE AfterOnes(_, _, _, _)
\* update_from_entity applied to entities[order[1]], entities[order[2]], ...
AfterOnes(tbl, entities, order, requested) ==
    IF order = <<>> THEN tbl
    ELSE AfterOnes(AfterOne(tbl, entities[Head(order)], requested),
                   entities, Tail(order), requested)

Orders(n) == { p \in [1 .. n -> 1 .. n] : \A i, j \in 1 .. n : p[i] = p[j] => i = j }

DistinctKeys(entities) ==
    \A i, j \in DOMAIN entities : i # j => ~SameKeys(entities[i], entities[j])

\* C8: update_from_entity leaves the table update_from_entities leaves for
\* the batch of that one entity; update_from_entities on a batch with
\* pairwise distinct keys leaves the table that update_from_entity leaves
\* when applied to the entities one by one, in any order; both return what
\* they were given.
C8_OneIsManyPerRow ==
    \A c \in Callers :
        /\ frame[c].pc = "done" /\ frame[c].op = "one" =>
              /\ AfterMany(frame[c].pre, frame[c].entities, frame[c].requested) = { table }
              /\ frame[c].ret.kind = "entity" => frame[c].ret.value = frame[c].entities
        /\ frame[c].pc = "done" /\ frame[c].op = "many" /\ frame[c].entities # <<>> =>
              /\ DistinctKeys(frame[c].entities) =>
                    \A order \in Orders(Len(frame[c].entities)) :
                        AfterOnes(frame[c].pre, frame[c].entities, order,
                                  frame[c].requested) = table
              /\ frame[c].ret.kind = "list" => frame[c].ret.value = frame[c].entities

\* Both paths have written: a single entity that changed a row, and a batch
\* of MaxBatch entities with distinct keys that changed two rows.
C8_WitnessOne ==
    /\ Succeeded(1, "one")
    /\ table # frame[1].pre

C8_Witness ==
    /\ Succeeded(1, "many")
    /\ Len(frame[1].entities) = MaxBatch
    /\ DistinctKeys(frame[1].entities)
    /\ Cardinality({ k \in DOMAIN table : table[k] # frame[1].pre[k] }) >= 2

\* The names of a sequence in order of first occurrence.
RECURSIVE FirstOccurrences(_)
FirstOccurrences(names) ==
    IF names = <<>> THEN <<>>
    ELSE LET before == FirstOccurrences(SubSeq(names, 1, Len(names) - 1))
         IN  IF names[Len(names)] \in SeqToSet(before) THEN before
             ELSE Append(before, names[Len(names)])

InSet(names, S) == SelectSeq(names, LAMBDA n : n \in S)

RowOrder == [i \in DOMAIN model_class |-> model_class[i].key]

ColumnNames(values) == [i \in DOMAIN values.columns |-> values.columns[i].name]

\* Every tuple of the row-set has a cell per column, holding the entity's
\* value for the column's field, None as NULL cast to the column's type.
TuplesFollowColumns(c) ==
    LET values == frame[c].stmt.values
    IN  \A j \in DOMAIN frame[c].entities :
            /\ Len(values.data) = Len(frame[c].entities)
            /\ Len(values.data[j]) = Len(values.columns)
            /\ \A i \in DOMAIN values.columns :
                  LET value == frame[c].entities[j][values.columns[i].name]
                  IN  /\ values.columns[i].type = RowColumn(values.columns[i].name).type
                      /\ values.data[j][i] =
                            IF value = None
                            THEN << "cast", RowColumn(values.columns[i].name).type >>
                            ELSE << "lit", value >>

\* C9 (as claimed): the column list is the key fields in row-schema order,
\* then the update fields in their canonical order (that of the cached
\* UpdatableFields), however the caller lists them; the tuples follow it.
C9_ColumnsInCanonicalOrder ==
    \A c \in Callers :
        Started(c) /\ frame[c].op = "many" =>
            /\ ColumnNames(frame[c].stmt.values) =
                  InSet(RowOrder, PrimaryKeyFields)
                      \o InSet(Keys(default_update_fields_by_name),
                               ResolvedFields(frame[c].requested))
            /\ TuplesFollowColumns(c)

\* C9 (amended): the column list is the key fields in row-schema order, then
\* the resolved update fields in the order the caller first lists them (in
\* the order of the cached UpdatableFields, which is the entity schema's,
\* when the caller lists none); the tuples follow it.
C9_ColumnsInRequestOrder ==
    \A c \in Callers :
        Started(c) /\ frame[c].op = "many" =>
            /\ ColumnNames(frame[c].stmt.values) =
                  InSet(RowOrder, PrimaryKeyFields)
                      \o (IF frame[c].requested.given
                          THEN InSet(FirstOccurrences(frame[c].requested.names),
                                     ResolvedFields(frame[c].requested))
                          ELSE InSet(entity_class, UpdatableFields))
            /\ TuplesFollowColumns(c)

\* A row-set of two key columns and two update columns, with a NULL cast in
\* it, was built for a request.
C9_Witness ==
    /\ Started(1) /\ frame[1].op = "many"
    /\ frame[1].requested.given
    /\ Len(frame[1].stmt.values.columns) = 4
    /\ Cardinality(PrimaryKeyFields) = 2
    /\ \E j \in DOMAIN frame[1].stmt.values.data :
          frame[1].stmt.values.data[j][3][1] = "cast"

\* The (row, row-set row) pairs a statement selects in a table.
Selected(tbl, stmt, withFilter) ==
    { << k, j >> \in (DOMAIN tbl) \X (DOMAIN stmt.values.data) :
        /\ withFilter => MatchesFilter(tbl[k], stmt)
        /\ MatchesJoin(tbl[k], stmt, j) }

\* C10: with the IN filter the statement selects the pairs the join alone
\* selects, which are the rows holding an entity's full key paired with
\* that entity.
C10_FilterIsRedundant ==
    \A c \in Callers :
        Started(c) /\ frame[c].op = "many" =>
            \A tbl \in { table, frame[c].pre } \ { <<>> } :
                /\ Selected(tbl, frame[c].stmt, TRUE) = Selected(tbl, frame[c].stmt, FALSE)
                /\ Selected(tbl, frame[c].stmt, TRUE) =
                      { << k, j >> \in (DOMAIN tbl) \X (DOMAIN frame[c].entities) :
                          SameKey(tbl[k], frame[c].entities[j]) }

\* A composite-key batch whose key values, taken from different entities,
\* combine to the key of a row that no entity has; another row is selected.
C10_Witness ==
    /\ Started(1) /\ frame[1].op = "many"
    /\ Cardinality(PrimaryKeyFields) = 2
    /\ \E k \in DOMAIN table :
          /\ MatchesFilter(table[k], frame[1].stmt)
          /\ \A j \in DOMAIN frame[1].entities : ~SameKey(table[k], frame[1].entities[j])
    /\ Selected(table, frame[1].stmt, TRUE) # {}

====
